---- MODULE Spec2Model ----
(***************************************************************************)
(* fast-watermark (src/src/lib.rs): validation of a watermark config,      *)
(* preparation of the watermark raster, placement (single or tiled) and    *)
(* the per-pixel alpha compositor, plus the two exported entry points.     *)
(*                                                                         *)
(* Numbers.  An f32 is a record [nan, q]: NaN, or the value q/4 for a      *)
(* transparency (all multiples of 1/4 are exact in f32) and q degrees for  *)
(* a rotation angle.  The blend is computed in exact rational arithmetic   *)
(* over the denominator 255*4; f32 gives the same truncated bytes whenever *)
(* the effective alpha is 0 or 1.  Rasters are row-major arrays of pixels  *)
(* <<r, g, b, a>>, so a byte index of the source divided by 4 is a pixel   *)
(* index here.                                                             *)
(***************************************************************************)
EXTENDS Integers, Sequences, FiniteSets, TLC

\* ------------------------------------------------------------------ bounds
MaxBase == 4
MaxOverlay == 2
MaxOffset == 5
MaxSrc == 3

\* ------------------------------------------------------- program constants
DefaultOffset == 10
DefaultTransparencyQ == 2

VARIABLES
    overflow_checks,   \* build profile: are integer overflow checks compiled in
    image_data,        \* bytes of the base image handed to the entry points
    config_js,         \* configuration payload handed to the entry points
    wm_resampled,      \* raster the external resize / a non-zero rotation yields
    ret                \* per function: its return value, or pending

vars == <<overflow_checks, image_data, config_js, wm_resampled, ret>>

\* ------------------------------------------------------------------ values
Min(a, b) == IF a <= b THEN a ELSE b
Max(a, b) == IF a >= b THEN a ELSE b
Abs(a) == IF a >= 0 THEN a ELSE -a

None == [some |-> FALSE, v |-> 0]
Some(v) == [some |-> TRUE, v |-> v]
NoneF == [some |-> FALSE, v |-> [nan |-> FALSE, q |-> 0]]
F(q) == [nan |-> FALSE, q |-> q]
NaN == [nan |-> TRUE, q |-> 0]

\* f32 comparison: every comparison with NaN is false
f32_lt(a, b) == ~a.nan /\ ~b.nan /\ a.q < b.q
f32_gt(a, b) == ~a.nan /\ ~b.nan /\ a.q > b.q
f32_eq(a, b) == ~a.nan /\ ~b.nan /\ a.q = b.q

unwrap_or(opt, d) == IF opt.some THEN opt.v ELSE d

\* RgbaImage: width, height, row-major pixel buffer
NoRaster == [w |-> 0, h |-> 0, data |-> [i \in {} |-> <<0, 0, 0, 0>>]]
dimensions(img) == <<img.w, img.h>>

\* ---------------------------------------------------------- alpha compositor
AlphaScale == 255 * 4

\* `as u8` of the f32 value num/den (den > 0): truncate, saturate to 0..255
as_u8(num, den) ==
    IF num <= 0 THEN 0
    ELSE IF num \div den > 255 THEN 255
    ELSE num \div den

\* the pixel stored by the first per-row loop of the compositor
BlendIgnoringOverlayAlpha(tp, op, transparency) ==
    IF transparency.nan THEN <<0, 0, 0, 0>>
    ELSE LET an == 255 * transparency.q
         IN  << as_u8(tp[1] * (AlphaScale - an) + op[1] * an, AlphaScale),
                as_u8(tp[2] * (AlphaScale - an) + op[2] * an, AlphaScale),
                as_u8(tp[3] * (AlphaScale - an) + op[3] * an, AlphaScale),
                as_u8(tp[4] * (AlphaScale * 255) + an * (255 - tp[4]), AlphaScale * 255) >>

BlendSwappedWeights(tp, op, transparency) ==
    IF transparency.nan THEN <<0, 0, 0, 0>>
    ELSE LET an == op[4] * transparency.q
         IN  << as_u8(tp[1] * an + op[1] * (AlphaScale - an), AlphaScale),
                as_u8(tp[2] * an + op[2] * (AlphaScale - an), AlphaScale),
                as_u8(tp[3] * an + op[3] * (AlphaScale - an), AlphaScale),
                as_u8(tp[4] * (AlphaScale * 255) + an * (255 - tp[4]), AlphaScale * 255) >>

Blend(tp, op, transparency) ==
    IF transparency.nan THEN <<0, 0, 0, 0>>
    ELSE LET an == op[4] * transparency.q   \* overlay_alpha = an / AlphaScale
         IN  << as_u8(tp[1] * (AlphaScale - an) + op[1] * an, AlphaScale),
                as_u8(tp[2] * (AlphaScale - an) + op[2] * an, AlphaScale),
                as_u8(tp[3] * (AlphaScale - an) + op[3] * an, AlphaScale),
                as_u8(tp[4] * (AlphaScale * 255) + an * (255 - tp[4]), AlphaScale * 255) >>

\* usize a - b: a panic with overflow checks, else the wrapped difference
\* 2^N - (b - a), which exceeds every index of a buffer (wrapped)
usize_sub(a, b, checks) ==
    IF a >= b THEN [panic |-> FALSE, wrapped |-> FALSE, v |-> a - b]
    ELSE IF checks THEN [panic |-> TRUE, wrapped |-> FALSE, v |-> 0]
    ELSE [panic |-> FALSE, wrapped |-> TRUE, v |-> 0]

below(i, bound) == bound.wrapped \/ i < bound.v

\* the pixel stored by the second (remainder) per-row loop, lines 394-412
BlendRemainder(tp, op, transparency) ==
    IF transparency.nan \/ op[4] * transparency.q <= 0 THEN tp
    ELSE LET an == op[4] * transparency.q
         IN  << as_u8(tp[1] * (AlphaScale - an) + op[1] * an, AlphaScale),
                as_u8(tp[2] * (AlphaScale - an) + op[2] * an, AlphaScale),
                as_u8(tp[3] * (AlphaScale - an) + op[3] * an, AlphaScale),
                as_u8(tp[4] * (AlphaScale - an) + op[4] * an, AlphaScale) >>

\* condition of the first per-row loop (line 347): one pixel per iteration
first_loop_in_batches(ox, cols) == below(ox + 3, cols)

first_loop_continues(ox, cols) == below(ox, cols)

\* the loop nest, from at = <<oy, ox, loop, tail>> on: row oy, column ox, in
\* the first or the remainder loop of the row, after tail iterations of
\* remainder loops; cols is only evaluated once a row is entered
RECURSIVE BlendLoop(_, _, _, _, _, _, _, _, _)
BlendLoop(data, target, overlay, start_x, start_y, transparency, rows, cols, at) ==
    LET oy == at[1]
        ox == at[2]
        first == at[3] = "first"
        tail == at[4]
        overlay_idx == oy * overlay.w + ox
        target_idx == (start_y + oy) * target.w + start_x + ox
        end(fault) == [data |-> data, fault |-> fault, tail |-> tail]
    IN  IF ~below(oy, rows) THEN end("none")
        ELSE IF cols.panic THEN end("subtract_overflow")
        ELSE IF ~below(0, cols) THEN end("none")
        ELSE IF first /\ ~first_loop_continues(ox, cols)
            THEN BlendLoop(data, target, overlay, start_x, start_y, transparency,
                           rows, cols, <<oy, ox, "remainder", tail>>)
        ELSE IF ~first /\ ~below(ox, cols)
            THEN BlendLoop(data, target, overlay, start_x, start_y, transparency,
                           rows, cols, <<oy + 1, 0, "first", tail>>)
        ELSE IF overlay_idx >= overlay.w * overlay.h THEN end("index_out_of_bounds")
        ELSE IF target_idx >= target.w * target.h THEN end("index_out_of_bounds")
        ELSE LET pixel == IF first
                          THEN Blend(data[target_idx], overlay.data[overlay_idx],
                                     transparency)
                          ELSE BlendRemainder(data[target_idx], overlay.data[overlay_idx],
                                              transparency)
                 stored == [data EXCEPT ![target_idx] = pixel]
             IN  BlendLoop(stored, target, overlay, start_x, start_y, transparency,
                           rows, cols,
                           <<oy, ox + 1, at[3], IF first THEN tail ELSE tail + 1>>)

overlay_image_rgba_with_transparency(target, overlay, x, y, transparency, checks) ==
    LET start_x == x
        start_y == y
        end_x == Min(start_x + overlay.w, target.w)
        end_y == Min(start_y + overlay.h, target.h)
        rows == usize_sub(end_y, start_y, checks)
        cols == usize_sub(end_x, start_x, checks)
        out == BlendLoop(target.data, target, overlay, start_x, start_y, transparency,
                         rows, cols, <<0, 0, "first", 0>>)
    IN  IF rows.panic THEN [img |-> target, fault |-> "subtract_overflow", tail |-> 0]
        ELSE [img |-> [target EXCEPT !.data = out.data], fault |-> out.fault,
              tail |-> out.tail]

\* ------------------------------------------------------------ return values
Result(kind, via, err, img, trace) ==
    [kind |-> kind, via |-> via, err |-> err, img |-> img, trace |-> trace]
Pending == Result("Pending", "", "", NoRaster, <<>>)
Ok(img, trace) == Result("Ok", "", "", img, trace)
Err(err, trace) == Result("Err", "", err, NoRaster, trace)
Panic(err, trace) == Result("Panic", "", err, NoRaster, trace)

Event(op, x, y, fault, before, after) ==
    [op |-> op, x |-> x, y |-> y, fault |-> fault, before |-> before, after |-> after,
     tail |-> 0]
Step(op) == Event(op, 0, 0, "none", NoRaster, NoRaster)

\* error messages (up to their formatted arguments), by the kind they report
InvalidType == "Invalid watermark type. Must be 'text' or 'image'"
InvalidTransparency == "Transparency must be between 0.0 and 1.0"
InvalidRotation == "Rotation angle must be between -360 and 360 degrees"
MissingWatermarkData == "image_data parameter is required"
InvalidWidth == "Width must be greater than 0"
InvalidHeight == "Height must be greater than 0"
EmptyPayload == "Empty base64 data"
TransportDecodeError == "Failed to decode base64"
WatermarkDecodeError == "Failed to load watermark image"
ZeroWidthSource == "Watermark image has zero width"
TextNeedsImageData == "Text watermark requires image_data parameter (rendered by client)"
EmptyInput == "Image data is empty"
ConfigParseError == "Failed to parse config"
CodecDecodeError == "Failed to load image"
UnknownType == "Invalid watermark type. Use 'text' or 'image'"
DivideByZero == "attempt to divide by zero"
ZeroStep == "assertion failed: step != 0"

\* ------------------------------------------------------------ validate_config
validate_config(config) ==
    IF config.watermark_type \notin {"text", "image"} THEN InvalidType
    ELSE IF config.transparency.some
            /\ (f32_lt(config.transparency.v, F(0)) \/ f32_gt(config.transparency.v, F(4)))
        THEN InvalidTransparency
    ELSE IF config.rotate.some
            /\ (f32_lt(config.rotate.v, F(-360)) \/ f32_gt(config.rotate.v, F(360)))
        THEN InvalidRotation
    ELSE IF ~config.image_data.some THEN MissingWatermarkData
    ELSE IF config.width.some /\ config.width.v = 0 THEN InvalidWidth
    ELSE IF config.height.some /\ config.height.v = 0 THEN InvalidHeight
    ELSE "Ok"

\* ------------------------------------------------- load_and_prepare_watermark
\* the payload stands for the string by what the transport decoder and the
\* codec make of it
decode_base64_image(payload) ==
    IF payload.kind = "empty" THEN EmptyPayload
    ELSE IF payload.kind = "bad_base64" THEN TransportDecodeError
    ELSE "Ok"

\* angle 0 is a copy; a NaN angle gives a 0 x 0 canvas (ceil(NaN) as u32 = 0);
\* any other angle resamples into a new canvas
rotate_image(img, angle_degrees, resampled) ==
    IF f32_eq(angle_degrees, F(0)) THEN img
    ELSE IF angle_degrees.nan THEN NoRaster
    ELSE resampled

\* the height computed at line 169: u32 division, evaluated whether or not
\* config.height is given (unwrap_or takes its argument by value); the
\* product stays below 2^32 for every raster drawn here
ScaledHeight(original_width, original_height, width) ==
    (original_height * width) \div original_width

load_and_prepare_watermark(config, resampled) ==
    IF ~config.image_data.some THEN Err(MissingWatermarkData, <<>>)
    ELSE LET payload == config.image_data.v
             t1 == <<Step("decode_base64_image")>>
             t2 == Append(t1, Step("load_from_memory"))
             original == payload.img
         IN  IF decode_base64_image(payload) # "Ok"
                 THEN Err(decode_base64_image(payload), t1)
             ELSE IF payload.kind # "image" THEN Err(WatermarkDecodeError, t2)
             ELSE IF config.watermark_type = "image" /\ config.width.some
                     /\ original.w = 0
                 THEN Panic(DivideByZero, t2)
             ELSE LET resizes == config.watermark_type = "image" /\ config.width.some
                      width == config.width.v
                      height == unwrap_or(config.height,
                                          ScaledHeight(original.w, original.h, width))
                      t3 == IF resizes
                            THEN Append(t2, Event("resize", width, height, "none",
                                                  original, resampled))
                            ELSE t2
                      sized == IF resizes THEN resampled ELSE original
                      rotate == unwrap_or(config.rotate, F(0))
                      rotated == rotate_image(sized, rotate, resampled)
                  IN  IF resizes /\ original.w = 0 THEN Err(ZeroWidthSource, t2)
                      ELSE Ok(rotated, Append(t3, Step("rotate_image")))

\* ------------------------------------------------------------ apply_watermark
\* single placement: the coordinate on one axis (offsets and dimensions drawn
\* here stay far inside i32, so the casts are exact)
single_coordinate_magnitude(image_dimension, offset) ==
    IF offset >= 0 THEN offset ELSE -offset

single_coordinate(image_dimension, offset) ==
    IF offset >= 0 THEN offset ELSE Max(image_dimension + offset, 0)

\* tiled placement: stride and first coordinate on one axis
tile_spacing_signed(overlay_dimension, offset) == Max(overlay_dimension + offset, 1)

tile_spacing(overlay_dimension, offset) == overlay_dimension + Abs(offset)

tile_start(offset) == IF offset >= 0 THEN offset ELSE 0

Composite(acc, overlay, x, y, transparency, checks) ==
    LET out == overlay_image_rgba_with_transparency(acc.img, overlay, x, y,
                                                    transparency, checks)
    IN  [img |-> out.img, fault |-> out.fault,
         trace |-> Append(acc.trace,
                          [Event("overlay", x, y, out.fault, acc.img, out.img)
                              EXCEPT !.tail = out.tail])]

\* the two nested step_by loops, from coordinate at = <<y, x>> on
RECURSIVE TileLoop(_, _, _, _, _, _, _, _)
TileLoop(acc, overlay, transparency, checks, start_x, spacing_x, spacing_y, at) ==
    LET y == at[1]
        x == at[2]
    IN  IF acc.fault # "none" THEN acc
        ELSE IF y >= acc.img.h THEN acc
        ELSE IF spacing_x = 0 THEN [acc EXCEPT !.fault = ZeroStep]
        ELSE IF x >= acc.img.w
            THEN TileLoop(acc, overlay, transparency, checks, start_x, spacing_x,
                          spacing_y, <<y + spacing_y, start_x>>)
        ELSE TileLoop(Composite(acc, overlay, x, y, transparency, checks), overlay,
                      transparency, checks, start_x, spacing_x, spacing_y,
                      <<y, x + spacing_x>>)

\* lines 436-497: placement of the prepared watermark on the base raster
PlaceWatermark(img, config, prepared, checks) ==
    LET watermark_rgba == prepared.img
        transparency == unwrap_or(config.transparency, F(DefaultTransparencyQ))
        x_offset == unwrap_or(config.x_offset, DefaultOffset)
        y_offset == unwrap_or(config.y_offset, DefaultOffset)
        tile == unwrap_or(config.tile, FALSE)
        start == [img |-> img, fault |-> "none", trace |-> prepared.trace]
        spacing_x == tile_spacing(watermark_rgba.w, x_offset)
        spacing_y == tile_spacing(watermark_rgba.h, y_offset)
        placed ==
            IF tile
            THEN IF spacing_y = 0 THEN [start EXCEPT !.fault = ZeroStep]
                 ELSE TileLoop(start, watermark_rgba, transparency, checks,
                               tile_start(x_offset), spacing_x, spacing_y,
                               <<tile_start(y_offset), tile_start(x_offset)>>)
            ELSE Composite(start, watermark_rgba,
                           single_coordinate(img.w, x_offset),
                           single_coordinate(img.h, y_offset), transparency, checks)
    IN  IF placed.fault # "none"
            THEN [Panic(placed.fault, placed.trace) EXCEPT !.img = placed.img]
        ELSE Ok(placed.img, placed.trace)

apply_watermark_validating_last(img, config, resampled, checks) ==
    LET prepared == load_and_prepare_watermark(config, resampled)
        placed == PlaceWatermark(img, config, prepared, checks)
    IN  IF prepared.kind # "Ok" THEN [prepared EXCEPT !.img = img]
        ELSE IF validate_config(config) # "Ok"
            THEN [Err(validate_config(config), placed.trace) EXCEPT !.img = placed.img]
        ELSE placed

apply_watermark(img, config, resampled, checks) ==
    LET prepared == load_and_prepare_watermark(config, resampled)
    IN  IF validate_config(config) # "Ok"
            THEN [Err(validate_config(config), <<>>) EXCEPT !.img = img]
        ELSE IF prepared.kind # "Ok" THEN [prepared EXCEPT !.img = img]
        ELSE PlaceWatermark(img, config, prepared, checks)

add_text_watermark(img, config, resampled, checks) ==
    IF ~config.image_data.some THEN [Err(TextNeedsImageData, <<>>) EXCEPT !.img = img]
    ELSE apply_watermark(img, config, resampled, checks)

add_image_watermark(img, config, resampled, checks) ==
    apply_watermark(img, config, resampled, checks)

\* ------------------------------------------------------------- entry points
\* everything after the configuration is parsed; the PNG returned on success
\* is lossless, so it is given by the raster it encodes
Surfaced(via, r) ==
    IF r.kind = "Ok" THEN Ok(r.img, r.trace)
    ELSE Result(r.kind, via, r.err, NoRaster, r.trace)

AddWatermarkBody(bytes, payload, resampled, checks) ==
    IF ~payload.parses THEN Err(ConfigParseError, <<>>)
    ELSE IF bytes.kind # "image" THEN Err(CodecDecodeError, <<>>)
    ELSE IF payload.config.watermark_type = "text"
        THEN Surfaced("Failed to add text watermark",
                      add_text_watermark(bytes.img, payload.config, resampled, checks))
    ELSE IF payload.config.watermark_type = "image"
        THEN Surfaced("Failed to add image watermark",
                      add_image_watermark(bytes.img, payload.config, resampled, checks))
    ELSE Err(UnknownType, <<>>)

add_watermark(bytes, payload, resampled, checks) ==
    IF bytes.kind = "empty" THEN Err(EmptyInput, <<>>)
    ELSE AddWatermarkBody(bytes, payload, resampled, checks)

add_watermark_async(bytes, payload, resampled, checks) ==
    AddWatermarkBody(bytes, payload, resampled, checks)

\* -------------------------------------------------------------- input values
Functions == {"validate_config", "load_and_prepare_watermark", "apply_watermark",
              "add_watermark", "add_watermark_async"}

BasePixel(i) ==
    IF i % 3 = 0 THEN <<200, 100, 50, 255>>
    ELSE IF i % 3 = 1 THEN <<0, 255, 30, 0>>
    ELSE <<77, 80, 90, 100>>
OpaquePixel(i) == <<10 + i, 20, 250 - i, 255>>
MixedPixel(i) ==
    IF i % 3 = 0 THEN <<10, 20, 30, 0>>
    ELSE IF i % 3 = 1 THEN <<255, 0, 128, 128>>
    ELSE <<40, 50, 60, 255>>

BaseRaster(w, h) ==
    [w |-> w, h |-> h, data |-> [i \in 0..(w * h - 1) |-> BasePixel(i)]]
OpaqueRaster(w, h) ==
    [w |-> w, h |-> h, data |-> [i \in 0..(w * h - 1) |-> OpaquePixel(i)]]
MixedRaster(w, h) ==
    [w |-> w, h |-> h, data |-> [i \in 0..(w * h - 1) |-> MixedPixel(i)]]

Bytes(kind, img) == [kind |-> kind, img |-> img]
NoPayload == [some |-> FALSE, v |-> Bytes("", NoRaster)]
Config(type, transparency, rotate, x_offset, y_offset, tile, data, width, height) ==
    [watermark_type |-> type, transparency |-> transparency, rotate |-> rotate,
     x_offset |-> x_offset, y_offset |-> y_offset, tile |-> tile,
     image_data |-> data, width |-> width, height |-> height]
NoneB == [some |-> FALSE, v |-> FALSE]
Parsed(config) == [parses |-> TRUE, config |-> config]
Malformed ==
    [parses |-> FALSE,
     config |-> Config("", NoneF, NoneF, None, None, NoneB, NoPayload, None, None)]

AllPending == [f \in Functions |-> Pending]

\* requests exercising the entry points
EntryConfigs ==
    { Config(type, transparency, Some(F(0)), x_offset, Some(0), tile, data, width, None) :
        type \in {"text", "image", "stamp"},
        transparency \in {NoneF, Some(F(4)), Some(F(5))},
        x_offset \in {None, Some(0), Some(-1)},
        tile \in {NoneB, Some(TRUE)},
        data \in {NoPayload, Some(Bytes("image", OpaqueRaster(1, 1))),
                  Some(Bytes("bad_base64", NoRaster))},
        width \in {None, Some(2)} }

Init ==
    /\ overflow_checks \in BOOLEAN
    /\ image_data \in {Bytes("empty", NoRaster), Bytes("not_an_image", NoRaster),
                       Bytes("image", BaseRaster(MaxBase, MaxBase)),
                       Bytes("image", BaseRaster(1, 2))}
    /\ config_js \in {Malformed} \cup {Parsed(c) : c \in EntryConfigs}
    /\ wm_resampled = MixedRaster(2, 1)
    /\ ret = AllPending

\* configurations exercising every validation rule
ValidateConfigs ==
    { Config(type, transparency, rotate, Some(0), Some(0), NoneB, data, width, height) :
        type \in {"text", "image", "stamp"},
        transparency \in {NoneF, Some(NaN), Some(F(-1)), Some(F(0)), Some(F(4)), Some(F(5))},
        rotate \in {NoneF, Some(NaN), Some(F(-361)), Some(F(-360)), Some(F(0)),
                    Some(F(360)), Some(F(361))},
        data \in {NoPayload, Some(Bytes("image", OpaqueRaster(1, 1)))},
        width \in {None, Some(0), Some(1)},
        height \in {None, Some(0), Some(1)} }

InitValidate ==
    /\ overflow_checks \in BOOLEAN
    /\ image_data = Bytes("image", BaseRaster(MaxBase, MaxBase))
    /\ config_js \in {Parsed(c) : c \in ValidateConfigs}
    /\ wm_resampled = MixedRaster(2, 1)
    /\ ret = AllPending

\* configurations and payloads exercising the preparation of the watermark
SourcePayloads ==
    {Bytes("empty", NoRaster), Bytes("bad_base64", NoRaster), Bytes("not_an_image", NoRaster)}
    \cup {Bytes("image", MixedRaster(w, h)) : w \in 0..MaxSrc, h \in 0..MaxSrc}

PrepareConfigs ==
    { Config(type, Some(F(4)), rotate, Some(0), Some(0), NoneB, Some(data), width, height) :
        type \in {"text", "image"},
        rotate \in {NoneF, Some(F(0)), Some(F(90)), Some(NaN)},
        data \in SourcePayloads,
        width \in {None} \cup {Some(n) : n \in 1..MaxSrc},
        height \in {None} \cup {Some(n) : n \in 1..MaxSrc} }

InitPrepare ==
    /\ overflow_checks \in BOOLEAN
    /\ image_data = Bytes("image", BaseRaster(1, 1))
    /\ config_js \in {Parsed(c) : c \in PrepareConfigs}
    /\ wm_resampled \in {MixedRaster(2, 1), OpaqueRaster(1, 2)}
    /\ ret = AllPending

\* valid configurations exercising placement and compositing
PlaceConfigs ==
    { Config("text", transparency, NoneF, x_offset, y_offset, tile, Some(Bytes("image", wm)),
             None, None) :
        transparency \in {NoneF, Some(NaN), Some(F(0)), Some(F(4))},
        x_offset \in {None} \cup {Some(n) : n \in (-MaxOffset)..MaxOffset},
        y_offset \in {None} \cup {Some(n) : n \in {-MaxOffset, -1, 0, 1, MaxOffset}},
        tile \in {NoneB, Some(TRUE), Some(FALSE)},
        wm \in {OpaqueRaster(w, h) : w \in 0..MaxOverlay, h \in 0..MaxOverlay}
               \cup {MixedRaster(w, h) : w \in 1..MaxOverlay, h \in 1..MaxOverlay} }

InitPlace ==
    /\ overflow_checks \in BOOLEAN
    /\ image_data \in {Bytes("image", BaseRaster(w, h)) :
                        w \in (MaxBase - 1)..MaxBase, h \in (MaxBase - 1)..MaxBase}
    /\ config_js \in {Parsed(c) : c \in PlaceConfigs}
    /\ wm_resampled = MixedRaster(2, 1)
    /\ ret = AllPending

\* ------------------------------------------------------------------ actions
Return(f, value) ==
    /\ ret[f] = Pending
    /\ ret' = [ret EXCEPT ![f] = value]
    /\ UNCHANGED <<overflow_checks, image_data, config_js, wm_resampled>>

Call_validate_config ==
    /\ config_js.parses
    /\ Return("validate_config",
              Result(validate_config(config_js.config), "", "", NoRaster, <<>>))

Call_load_and_prepare_watermark ==
    /\ config_js.parses
    /\ Return("load_and_prepare_watermark",
              load_and_prepare_watermark(config_js.config, wm_resampled))

Call_apply_watermark ==
    /\ config_js.parses
    /\ image_data.kind = "image"
    /\ Return("apply_watermark",
              apply_watermark(image_data.img, config_js.config, wm_resampled,
                              overflow_checks))

Call_add_watermark ==
    Return("add_watermark",
           add_watermark(image_data, config_js, wm_resampled, overflow_checks))

Call_add_watermark_async ==
    Return("add_watermark_async",
           add_watermark_async(image_data, config_js, wm_resampled, overflow_checks))

Next == Call_add_watermark \/ Call_add_watermark_async
Spec == Init /\ [][Next]_vars

NextValidate == Call_validate_config \/ Call_apply_watermark
SpecValidate == InitValidate /\ [][NextValidate]_vars

NextPrepare == Call_load_and_prepare_watermark
SpecPrepare == InitPrepare /\ [][NextPrepare]_vars

NextPlace == Call_apply_watermark
SpecPlace == InitPlace /\ [][NextPlace]_vars

\* ------------------------------------------------------------------- claims
Cfg == config_js.config
Validated == ret["validate_config"]
Prepared == ret["load_and_prepare_watermark"]
Applied == ret["apply_watermark"]
Overlays(r) == {i \in DOMAIN r.trace : r.trace[i].op = "overlay"}
Resizes(r) == {i \in DOMAIN r.trace : r.trace[i].op = "resize"}
Watermark == Cfg.image_data.v.img
Tau == unwrap_or(Cfg.transparency, F(DefaultTransparencyQ))
XOffset == unwrap_or(Cfg.x_offset, DefaultOffset)
YOffset == unwrap_or(Cfg.y_offset, DefaultOffset)
Tiled == unwrap_or(Cfg.tile, FALSE)

\* the overlay pixel index landing on pixel p of the target when the overlay
\* is put at (x, y), or -1 when none does
Landing(target, overlay, x, y, p) ==
    LET col == p % target.w
        row == p \div target.w
    IN  IF x <= col /\ col < x + overlay.w /\ y <= row /\ row < y + overlay.h
        THEN (row - y) * overlay.w + (col - x)
        ELSE -1

\* C1: no compositor call fails, whatever the offset (x, y) >= 0 and the
\* overlay size: pixels outside the target are skipped without a panic or an
\* out-of-range index, also when x >= target width or y >= target height.
C1_CompositorNeverFails ==
    \A i \in Overlays(Applied) :
        /\ Applied.trace[i].x >= 0
        /\ Applied.trace[i].y >= 0
        /\ Applied.trace[i].fault = "none"

\* C2: add_watermark_async returns the same outcome as add_watermark for
\* every pair (base_image_bytes, config), empty bytes and malformed
\* configurations included.
C2_AsyncSameOutcome ==
    (ret["add_watermark"] # Pending /\ ret["add_watermark_async"] # Pending)
        => ret["add_watermark_async"] = ret["add_watermark"]

\* C3: validate_config returns the failure of the first rule violated, in the
\* order type, transparency in [0.0, 1.0], rotate in [-360, 360], image_data
\* present, width > 0, height > 0, and success when none is violated.
InClosedRange(f, lo, hi) == ~f.nan /\ lo <= f.q /\ f.q <= hi
C3_Rules ==
    << <<Cfg.watermark_type \in {"text", "image"}, InvalidType>>,
       <<Cfg.transparency.some => InClosedRange(Cfg.transparency.v, 0, 4), InvalidTransparency>>,
       <<Cfg.rotate.some => InClosedRange(Cfg.rotate.v, -360, 360), InvalidRotation>>,
       <<Cfg.image_data.some, MissingWatermarkData>>,
       <<Cfg.width.some => Cfg.width.v > 0, InvalidWidth>>,
       <<Cfg.height.some => Cfg.height.v > 0, InvalidHeight>> >>
C3_FirstViolatedRule ==
    Validated # Pending =>
        LET violated == {i \in DOMAIN C3_Rules : ~C3_Rules[i][1]}
        IN  IF violated = {} THEN Validated.kind = "Ok"
            ELSE \E i \in violated :
                    /\ \A j \in violated : i <= j
                    /\ Validated.kind = C3_Rules[i][2]

\* (C3, supporting) on configurations whose transparency and rotate are not
\* NaN, validate_config returns exactly the first violated rule.
C3_FirstViolatedRuleOfNumbers ==
    (/\ Cfg.transparency.some => ~Cfg.transparency.v.nan
     /\ Cfg.rotate.some => ~Cfg.rotate.v.nan) => C3_FirstViolatedRule

\* C4: when the configuration fails validation, apply_watermark returns an
\* error, having decoded, resized, rotated and composited nothing, and the
\* base raster is as it was before the call.
C4_InvalidConfigLeavesBase ==
    (Applied # Pending /\ validate_config(Cfg) # "Ok") =>
        /\ Applied.kind = "Err"
        /\ Applied.err = validate_config(Cfg)
        /\ Applied.trace = <<>>
        /\ Applied.img = image_data.img
C4_Witness ==
    /\ Applied.kind = "Err"
    /\ Applied.err \in {InvalidTransparency, InvalidRotation}
    /\ Cfg.image_data.some
    /\ Cfg.image_data.v.kind = "image"

\* C5: for an image-type watermark with width set, a decoded watermark of
\* width 0 makes load_and_prepare_watermark return the ZeroWidthSource error,
\* with no resize attempted and no arithmetic fault, whether or not height
\* is given.
C5_ZeroWidthIsAnError ==
    (/\ Prepared # Pending
     /\ Cfg.watermark_type = "image"
     /\ Cfg.width.some
     /\ Cfg.image_data.v.kind = "image"
     /\ Watermark.w = 0) =>
        /\ Prepared.kind = "Err"
        /\ Prepared.err = ZeroWidthSource
        /\ Resizes(Prepared) = {}

\* C6: a compositor call leaves all four channels of a target pixel unchanged
\* when the effective alpha of the overlay pixel landing on it is 0, and a
\* call with transparency 0 leaves the whole target raster unchanged.
C6_ZeroAlphaKeepsPixel ==
    \A i \in Overlays(Applied) :
        LET e == Applied.trace[i]
        IN  /\ \A p \in DOMAIN e.before.data :
                LET o == Landing(e.before, Watermark, e.x, e.y, p)
                IN  (o >= 0 /\ ~Tau.nan /\ Watermark.data[o][4] * Tau.q = 0)
                        => e.after.data[p] = e.before.data[p]
            /\ f32_eq(Tau, F(0)) => e.after = e.before
C6_Witness ==
    \E i \in Overlays(Applied) :
        LET e == Applied.trace[i]
        IN  /\ f32_gt(Tau, F(0))
            /\ e.after # e.before
            /\ \E p \in DOMAIN e.before.data :
                LET o == Landing(e.before, Watermark, e.x, e.y, p)
                IN  o >= 0 /\ Watermark.data[o][4] = 0

\* C7: with transparency 1 and an overlay of alpha 255 everywhere, a
\* compositor call sets R, G and B of every target pixel under the clipped
\* footprint to those of the overlay pixel landing on it.
OpaqueOverlay == \A o \in DOMAIN Watermark.data : Watermark.data[o][4] = 255
C7_OpaqueOverlayReplacesRGB ==
    (f32_eq(Tau, F(4)) /\ OpaqueOverlay) =>
        \A i \in Overlays(Applied) :
            LET e == Applied.trace[i]
            IN  \A p \in DOMAIN e.before.data :
                    LET o == Landing(e.before, Watermark, e.x, e.y, p)
                    IN  o >= 0 =>
                            /\ e.after.data[p][1] = Watermark.data[o][1]
                            /\ e.after.data[p][2] = Watermark.data[o][2]
                            /\ e.after.data[p][3] = Watermark.data[o][3]
C7_Witness ==
    /\ f32_eq(Tau, F(4))
    /\ OpaqueOverlay
    /\ \E i \in Overlays(Applied) :
        LET e == Applied.trace[i]
        IN  \E p \in DOMAIN e.before.data :
                LET o == Landing(e.before, Watermark, e.x, e.y, p)
                IN  /\ o >= 0
                    /\ e.before.data[p][1] # Watermark.data[o][1]
                    /\ e.before.data[p][4] < 255

\* C8: in single placement the compositor is invoked exactly once, at the
\* coordinate that is, per axis, the offset when it is >= 0 and otherwise
\* max(0, image dimension + offset); the coordinate is never negative.
C8_Coordinate(dimension, offset) ==
    IF offset >= 0 THEN offset
    ELSE IF dimension + offset > 0 THEN dimension + offset ELSE 0
C8_SinglePlacement ==
    (Applied # Pending /\ ~Tiled) =>
        /\ Cardinality(Overlays(Applied)) = 1
        /\ \A i \in Overlays(Applied) :
            /\ Applied.trace[i].x = C8_Coordinate(image_data.img.w, XOffset)
            /\ Applied.trace[i].y = C8_Coordinate(image_data.img.h, YOffset)
            /\ Applied.trace[i].x >= 0
            /\ Applied.trace[i].y >= 0
C8_Witness ==
    /\ Applied # Pending
    /\ ~Tiled
    /\ image_data.img.w = MaxBase
    /\ XOffset = -1
    /\ YOffset = -MaxOffset
    /\ \E i \in Overlays(Applied) :
        Applied.trace[i].x = MaxBase - 1 /\ Applied.trace[i].y = 0

\* C9: in tiled placement with an overlay of positive width and height the
\* compositor is invoked exactly once at each (x, y) with x = start_x +
\* i*spacing_x < target width and y = start_y + j*spacing_y < target height
\* (spacing = overlay dimension + |offset|, start = offset if >= 0 else 0) and
\* nowhere else; no two footprints overlap; with both offsets 0 every target
\* pixel lies under exactly one placement.
C9_Grid(dimension, overlay_dimension, offset) ==
    LET spacing == overlay_dimension + (IF offset < 0 THEN -offset ELSE offset)
        first == IF offset >= 0 THEN offset ELSE 0
    IN  {c \in 0..(dimension - 1) : \E k \in 0..dimension : c = first + k * spacing}
C9_TiledPlacement ==
    (Applied # Pending /\ Tiled /\ Watermark.w > 0 /\ Watermark.h > 0) =>
        LET t == Applied.trace
            at(i) == <<t[i].x, t[i].y>>
            base == image_data.img
        IN  /\ Applied.kind = "Ok"
            /\ {at(i) : i \in Overlays(Applied)}
                  = C9_Grid(base.w, Watermark.w, XOffset)
                        \X C9_Grid(base.h, Watermark.h, YOffset)
            /\ \A i, j \in Overlays(Applied) :
                i # j =>
                    /\ at(i) # at(j)
                    /\ \A p \in DOMAIN base.data :
                        ~(/\ Landing(base, Watermark, t[i].x, t[i].y, p) >= 0
                          /\ Landing(base, Watermark, t[j].x, t[j].y, p) >= 0)
            /\ (XOffset = 0 /\ YOffset = 0) =>
                \A p \in DOMAIN base.data :
                    Cardinality({i \in Overlays(Applied) :
                        Landing(base, Watermark, t[i].x, t[i].y, p) >= 0}) = 1
C9_Witness ==
    /\ Applied.kind = "Ok"
    /\ Tiled
    /\ XOffset = 0
    /\ YOffset = 0
    /\ Watermark.w = MaxOverlay
    /\ Watermark.h = MaxOverlay
    /\ image_data.img.w = 2 * MaxOverlay
    /\ image_data.img.h = 2 * MaxOverlay
    /\ Cardinality(Overlays(Applied)) = 4

\* C10: with width set and height absent, the height handed to the resize
\* primitive is original_height * width / original_width rounded to the
\* nearest integer (either neighbour on a tie); with height present it is
\* the given height.
C10_Nearest(n, original_width, original_height, width) ==
    LET twice == 2 * (n * original_width - original_height * width)
    IN  -original_width <= twice /\ twice <= original_width
C10_ResizeHeightIsRounded ==
    \A i \in Resizes(Prepared) :
        IF Cfg.height.some THEN Prepared.trace[i].y = Cfg.height.v
        ELSE C10_Nearest(Prepared.trace[i].y, Watermark.w, Watermark.h, Cfg.width.v)

\* C11: every pixel blended by a compositor call, in single placement and in
\* every tile, has its alpha set by the one "over" policy
\* trunc(a_t + alpha * (255 - a_t) / 255), alpha = (a_o / 255) * transparency;
\* the treat-as-RGB policy of the remainder loop is applied to no pixel,
\* because that loop never executes an iteration.
C11_Over(a_t, a_o, transparency) ==
    (a_t * 255 * 255 * 4 + a_o * transparency.q * (255 - a_t)) \div (255 * 255 * 4)
C11_AsRGB(a_t, a_o, transparency) ==
    (a_t * (255 * 4 - a_o * transparency.q) + a_o * a_o * transparency.q) \div (255 * 4)
C11_OneAlphaPolicy ==
    \A i \in Overlays(Applied) :
        LET e == Applied.trace[i]
        IN  /\ e.tail = 0
            /\ (e.fault = "none" /\ ~Tau.nan) =>
                \A p \in DOMAIN e.before.data :
                    LET o == Landing(e.before, Watermark, e.x, e.y, p)
                    IN  o >= 0 => e.after.data[p][4] =
                            C11_Over(e.before.data[p][4], Watermark.data[o][4], Tau)
C11_Witness ==
    /\ Tiled
    /\ Cardinality(Overlays(Applied)) > 1
    /\ \E i \in Overlays(Applied) :
        LET e == Applied.trace[i]
        IN  /\ i > Len(Applied.trace) - 1
            /\ e.fault = "none"
            /\ e.tail = 0
            /\ f32_gt(Tau, F(0))
            /\ \E p \in DOMAIN e.before.data :
                LET o == Landing(e.before, Watermark, e.x, e.y, p)
                IN  /\ o >= 0
                    /\ Watermark.data[o][4] > 0
                    /\ C11_Over(e.before.data[p][4], Watermark.data[o][4], Tau)
                         # C11_AsRGB(e.before.data[p][4], Watermark.data[o][4], Tau)
                    /\ e.after.data[p][4] # e.before.data[p][4]

====
